---------------------------- MODULE Spec2Model ----------------------------
(***************************************************************************)
(* A model of the date-normalisation and period-coverage scripts under     *)
(* src/data:                                                               *)
(*   summarize_missing_periods.py  (iterate_months, months_to_ranges,      *)
(*                                  extract_year_months, summarize_file)   *)
(*   normalize_all_data_dates.py   (detect_encoding, detect_date_columns,  *)
(*                                  determine_year_month, process_file)    *)
(*   cleanup_all_data_dates.py     (main)                                  *)
(*                                                                         *)
(* Text is modelled as a sequence of one-character strings, so that        *)
(* formatting, digit stripping and parsing are computed, not assumed.      *)
(* Characters outside ASCII are written with ASCII stand-ins:              *)
(*   "..."  stands for the one-character ellipsis U+2026,                  *)
(*   "nyeon" for U+B144, "do" for U+B3C4, "yeon" for U+C5F0,               *)
(*   "wol" for U+C6D4, "il" for U+C77C, "gi" for U+AE30,                   *)
(*   "jun" for U+C900 (each a single character of a column name).          *)
(***************************************************************************)
EXTENDS Integers, Sequences, FiniteSets, TLC

VARIABLES
    \* iterate_months(start, end): its arguments, locals and position
    im_start, im_end, im_year, im_month, im_months, im_pc,
    \* summarize_file after the read: observations and the derived report
    year_months, present, outside, missing, missing_ranges,
    \* the FileSummary summarize_file returns
    file_summary,
    \* months_to_ranges called on its own: argument, segments, labels, text
    mr_months, mr_segments, mr_labels, mr_text, mr_pc,
    \* process_file: the file's name and table on disk, the table the last
    \* pass read, what that pass classified and moved forward, and the
    \* year/month series every pass so far has written
    nf_name, nf_table, nf_input, nf_info, nf_related, nf_passes,
    \* extract_year_months: the table it was given, the set it returned
    ex_table, ex_months, ex_pc,
    \* a batch run of one script's main(): whether the root directory exists,
    \* the sorted work list, the loop position, the processed counter, the
    \* summaries collected, the count printed, the position in main()
    bt_script, bt_root, bt_files, bt_index, bt_processed, bt_summaries,
    bt_printed, bt_pc,
    \* best-score detect_encoding: the bytes of the file's header line, the
    \* number of candidates tried, best_encoding, best_score, the position
    en_header, en_tried, en_best_encoding, en_best_score, en_pc,
    \* rename_all_data_folders: whether the target directory exists, the
    \* names of the folders in it, and the outcome of every run so far
    rn_root, rn_dir, rn_runs

im_vars == <<im_start, im_end, im_year, im_month, im_months, im_pc>>
sm_vars == <<year_months, present, outside, missing, missing_ranges,
             file_summary>>
mr_vars == <<mr_months, mr_segments, mr_labels, mr_text, mr_pc>>
nf_vars == <<nf_name, nf_table, nf_input, nf_info, nf_related, nf_passes>>
ex_vars == <<ex_table, ex_months, ex_pc>>
bt_vars == <<bt_script, bt_root, bt_files, bt_index, bt_processed,
             bt_summaries, bt_printed, bt_pc>>
en_vars == <<en_header, en_tried, en_best_encoding, en_best_score, en_pc>>
rn_vars == <<rn_root, rn_dir, rn_runs>>
vars == <<im_vars, sm_vars, mr_vars, nf_vars, ex_vars, bt_vars, en_vars,
          rn_vars>>

\* what the actions of one part of the model leave alone
iter_frame == <<mr_vars, nf_vars, ex_vars, bt_vars, en_vars, rn_vars>>
ranges_frame == <<im_vars, sm_vars, nf_vars, ex_vars, bt_vars, en_vars, rn_vars>>
norm_frame == <<im_vars, sm_vars, mr_vars, bt_vars, en_vars, rn_vars>>
batch_frame == <<im_vars, sm_vars, mr_vars, nf_vars, ex_vars, en_vars, rn_vars>>
enc_frame == <<im_vars, sm_vars, mr_vars, nf_vars, ex_vars, bt_vars, rn_vars>>
rename_frame == <<im_vars, sm_vars, mr_vars, nf_vars, ex_vars, bt_vars, en_vars>>

(***************************************************************************)
(* Bounds of the model.                                                    *)
(***************************************************************************)
\* number of consecutive calendar months the reference interval is drawn from
IterSpan == 6
\* number of consecutive calendar months the argument of months_to_ranges
\* is drawn from (15 months hold up to 8 separate runs)
RangeSpan == 15
\* most columns and most rows of a table given to process_file, and the
\* number of times process_file is run on the same file
MaxCols == 2
MaxRows == 1
MaxPasses == 2
\* the longest work list of a batch run
MaxFiles == 3
\* most characters of the header line given to detect_encoding
MaxHeaderLen == 2
\* most folders of one period group that already carry a numbered name, and
\* the number of times the folder renaming is run
MaxIndex == 10
MaxRuns == 2

(***************************************************************************)
(* Calendar arithmetic used to enumerate inputs and to state properties.   *)
(* It works on the month index year*12 + (month-1), not on the encoding.   *)
(***************************************************************************)
MonthIndex(v) == (v \div 100) * 12 + ((v % 100) - 1)
IndexMonth(i) == (i \div 12) * 100 + (i % 12) + 1
AddMonths(v, k) == IndexMonth(MonthIndex(v) + k)
IsCalendarMonth(v) == (v % 100) \in 1..12

\* first month of the enumerated universes: October 2020, so that every
\* universe crosses the December/January boundary
FirstMonth == 2020 * 100 + 10
IterUniverse == { AddMonths(FirstMonth, k) : k \in 0..(IterSpan - 1) }
RangeUniverse == { AddMonths(FirstMonth, k) : k \in 0..(RangeSpan - 1) }

(***************************************************************************)
(* Generic helpers: Python's sorted(), min, str.join.                      *)
(***************************************************************************)
SetMin(S) == CHOOSE x \in S : \A y \in S : x <= y

RECURSIVE sorted(_)
sorted(S) == IF S = {} THEN << >>
             ELSE LET m == SetMin(S) IN <<m>> \o sorted(S \ {m})

Range(s) == { s[i] : i \in 1..Len(s) }

RECURSIVE join(_, _)
join(sep, parts) ==
    IF Len(parts) = 0 THEN << >>
    ELSE IF Len(parts) = 1 THEN parts[1]
    ELSE parts[1] \o sep \o join(sep, Tail(parts))

DigitChar == <<"0", "1", "2", "3", "4", "5", "6", "7", "8", "9">>

\* c.isdigit() and int(c) for one character
IsDigit(c) == \E d \in 0..9 : DigitChar[d + 1] = c
CharVal(c) == CHOOSE d \in 0..9 : DigitChar[d + 1] = c

\* int(s) for a text of decimal digits
RECURSIVE ParseNat(_)
ParseNat(s) == IF Len(s) = 0 THEN 0
               ELSE ParseNat(SubSeq(s, 1, Len(s) - 1)) * 10 + CharVal(s[Len(s)])

\* str(n) for n >= 0
RECURSIVE int_str(_)
int_str(n) == IF n < 10 THEN <<DigitChar[n + 1]>>
              ELSE int_str(n \div 10) \o <<DigitChar[(n % 10) + 1]>>

\* format(n, "0<w>d"): left-pad with zeros to at least w characters
RECURSIVE zero_pad(_, _)
zero_pad(s, w) == IF Len(s) >= w THEN s ELSE zero_pad(<<"0">> \o s, w)

(***************************************************************************)
(* summarize_missing_periods.py                                            *)
(***************************************************************************)
\* lines 29-32: advance one month, rolling 12 over to 1 of the next year
NextMonthNoRollover(year, month) == <<year, month + 1>>

NextMonth(year, month) ==
    IF month + 1 = 13 THEN <<year + 1, 1>> ELSE <<year, month + 1>>

\* line 27: the loop condition of iterate_months
IterateCond == \/ im_year < im_end \div 100
               \/ (im_year = im_end \div 100 /\ im_month <= im_end % 100)

\* month_int_to_label, lines 50-53: f"{year:04d}-{month:02d}"
month_int_to_label(value) ==
    zero_pad(int_str(value \div 100), 4) \o <<"-">>
        \o zero_pad(int_str(value % 100), 2)

\* lines 64-66: the month expected after prev
ExpectedNaive(prev) == (prev \div 100) * 100 + ((prev % 100) + 1)

Expected(prev) ==
    IF prev % 100 = 12 THEN (prev \div 100 + 1) * 100 + 1
    ELSE (prev \div 100) * 100 + ((prev % 100) + 1)

\* lines 61-72: the loop over values[1:], carried as (segments, start, prev)
RECURSIVE SegmentLoop(_, _, _, _)
SegmentLoop(rest, segments, start, prev) ==
    IF Len(rest) = 0 THEN Append(segments, <<start, prev>>)
    ELSE LET current == Head(rest) IN
         IF current = Expected(prev)
         THEN SegmentLoop(Tail(rest), segments, start, current)
         ELSE SegmentLoop(Tail(rest), Append(segments, <<start, prev>>),
                          current, current)

\* lines 57-72: the segments of a set of months ([] for the empty set)
Segments(months) ==
    LET values == sorted(months) IN
    IF Len(values) = 0 THEN << >>
    ELSE SegmentLoop(Tail(values), << >>, values[1], values[1])

\* lines 76-79: the label of one segment
SegmentLabel(seg) ==
    IF seg[1] = seg[2] THEN month_int_to_label(seg[1])
    ELSE month_int_to_label(seg[1]) \o <<"~">> \o month_int_to_label(seg[2])

\* line 75: segments[:max_segments]
TruncateOff(segments, max_segments) == segments

Truncate(segments, max_segments) ==
    SubSeq(segments, 1, IF Len(segments) < max_segments
                        THEN Len(segments) ELSE max_segments)

\* line 56: the default of max_segments
DefaultMaxSegments == 6

\* lines 74-82: the labels, with the ellipsis marker when segments were cut
Labels(segments, max_segments) ==
    LET shown == Truncate(segments, max_segments)
        labels == [i \in 1..Len(shown) |-> SegmentLabel(shown[i])]
    IN IF Len(segments) > max_segments
       THEN Append(labels, <<"...">>) ELSE labels

\* months_to_ranges, lines 56-84
months_to_ranges(months, max_segments) ==
    join(<<",", " ">>, Labels(Segments(months), max_segments))

(***************************************************************************)
(* iterate_months as a loop, followed by the report of summarize_file      *)
(* (lines 156-162, 180) over the interval the loop enumerated.             *)
(***************************************************************************)
ImIdle == /\ im_start = 0 /\ im_end = 0 /\ im_year = 0 /\ im_month = 0
          /\ im_months = << >> /\ im_pc = "idle"
SmIdle == /\ year_months = {} /\ present = << >> /\ outside = << >>
          /\ missing = << >> /\ missing_ranges = << >>
          /\ file_summary = << >>
MrIdle == /\ mr_months = {} /\ mr_segments = << >> /\ mr_labels = << >>
          /\ mr_text = << >> /\ mr_pc = "idle"
NfIdle == /\ nf_name = << >> /\ nf_table = << >> /\ nf_input = << >>
          /\ nf_info = << >> /\ nf_related = << >> /\ nf_passes = << >>
ExIdle == /\ ex_table = << >> /\ ex_months = {} /\ ex_pc = "idle"
BtIdle == /\ bt_script = "" /\ bt_root = FALSE /\ bt_files = << >>
          /\ bt_index = 0 /\ bt_processed = 0 /\ bt_summaries = << >>
          /\ bt_printed = << >> /\ bt_pc = "idle"
RnIdle == /\ rn_root = FALSE /\ rn_dir = {} /\ rn_runs = << >>
EnIdle == /\ en_header = << >> /\ en_tried = 0 /\ en_best_encoding = ""
          /\ en_best_score = 0 /\ en_pc = "idle"

\* lines 21-26
InitIter ==
    /\ im_start \in IterUniverse
    /\ im_end \in IterUniverse
    /\ im_year = im_start \div 100
    /\ im_month = im_start % 100
    /\ im_months = << >>
    /\ im_pc = "loop"
    /\ SmIdle
    /\ MrIdle
    /\ NfIdle
    /\ ExIdle
    /\ RnIdle
    /\ BtIdle
    /\ EnIdle

\* lines 27-32: one iteration
IterateStep ==
    /\ im_pc = "loop"
    /\ IterateCond
    /\ im_months' = Append(im_months, im_year * 100 + im_month)
    /\ im_year' = NextMonth(im_year, im_month)[1]
    /\ im_month' = NextMonth(im_year, im_month)[2]
    /\ UNCHANGED <<im_start, im_end, im_pc, sm_vars, iter_frame>>

\* line 33: the loop condition fails and the list is returned
IterateReturn ==
    /\ im_pc = "loop"
    /\ ~IterateCond
    /\ im_pc' = "done"
    /\ UNCHANGED <<im_start, im_end, im_year, im_month, im_months,
                   sm_vars, iter_frame>>

\* line 157 without its condition: every observation counted as present
present_unfiltered(obs, start, end) == sorted(obs)

\* line 157: present
present_of(obs, start, end) == sorted({ v \in obs : start <= v /\ v <= end })

\* lines 181-189: the counts, the rendered ranges and the notes of the
\* FileSummary of a file that was read
summary_of(obs, pres, miss, out) ==
    [present_count |-> Len(pres),
     missing_count |-> Len(miss),
     missing_ranges |-> months_to_ranges(Range(miss), DefaultMaxSegments),
     no_period |-> obs = {},
     outside_count |-> Len(out),
     read_error |-> FALSE]

\* lines 145-153: the FileSummary of a file that could not be read
read_error_summary(base_months) ==
    [present_count |-> 0,
     missing_count |-> Cardinality(base_months),
     missing_ranges |-> << >>,
     no_period |-> FALSE,
     outside_count |-> 0,
     read_error |-> TRUE]

\* lines 156-189, with BASE_START, BASE_END and BASE_MONTHS being the
\* interval and the month list the loop was run for
Summarize ==
    /\ im_pc = "done"
    /\ \E obs \in SUBSET IterUniverse :
         LET base_months == Range(im_months)
             pres == present_of(obs, im_start, im_end)
             miss == sorted(base_months \ Range(pres))
             out == sorted({ v \in obs : v < im_start \/ v > im_end })
         IN /\ year_months' = obs
            /\ present' = pres
            /\ outside' = out
            /\ missing' = miss
            /\ missing_ranges' = months_to_ranges(Range(miss),
                                                  DefaultMaxSegments)
            /\ file_summary' = summary_of(obs, pres, miss, out)
    /\ im_pc' = "summarized"
    /\ UNCHANGED <<im_start, im_end, im_year, im_month, im_months, iter_frame>>

\* lines 142-154: detect_encoding or pd.read_csv raised
SummarizeUnreadable ==
    /\ im_pc = "done"
    /\ file_summary' = read_error_summary(Range(im_months))
    /\ im_pc' = "summarized"
    /\ UNCHANGED <<im_start, im_end, im_year, im_month, im_months,
                   year_months, present, outside, missing, missing_ranges,
                   iter_frame>>

NextIter == IterateStep \/ IterateReturn \/ Summarize \/ SummarizeUnreadable

SpecIter == InitIter /\ [][NextIter]_vars

(***************************************************************************)
(* months_to_ranges applied to an arbitrary set of calendar months.        *)
(***************************************************************************)
InitRanges ==
    /\ mr_months \in SUBSET RangeUniverse
    /\ mr_segments = << >>
    /\ mr_labels = << >>
    /\ mr_text = << >>
    /\ mr_pc = "call"
    /\ ImIdle
    /\ SmIdle
    /\ NfIdle
    /\ ExIdle
    /\ RnIdle
    /\ BtIdle
    /\ EnIdle

Render ==
    /\ mr_pc = "call"
    /\ mr_segments' = Segments(mr_months)
    /\ mr_labels' = Labels(Segments(mr_months), DefaultMaxSegments)
    /\ mr_text' = months_to_ranges(mr_months, DefaultMaxSegments)
    /\ mr_pc' = "returned"
    /\ UNCHANGED <<mr_months, ranges_frame>>

NextRanges == Render

SpecRanges == InitRanges /\ [][NextRanges]_vars

(***************************************************************************)
(* Reading text back: used only to state what rendered labels denote.      *)
(***************************************************************************)
\* a zero-padded YYYY-MM text: four digits, a hyphen, two digits
IsMonthText(s) ==
    /\ Len(s) = 7
    /\ s[5] = "-"
    /\ \A i \in {1, 2, 3, 4, 6, 7} : IsDigit(s[i])
MonthTextValue(s) == ParseNat(SubSeq(s, 1, 4)) * 100 + ParseNat(SubSeq(s, 6, 7))

\* the label of the run of months from a to b, read back from its text
LabelDenotes(label, a, b) ==
    IF a = b
    THEN IsMonthText(label) /\ MonthTextValue(label) = a
    ELSE /\ Len(label) = 15
         /\ label[8] = "~"
         /\ IsMonthText(SubSeq(label, 1, 7))
         /\ MonthTextValue(SubSeq(label, 1, 7)) = a
         /\ IsMonthText(SubSeq(label, 9, 15))
         /\ MonthTextValue(SubSeq(label, 9, 15)) = b

\* the maximal runs of calendar-consecutive months of a set, by month index
RunStarts(S) == { m \in S : AddMonths(m, -1) \notin S }
RunEnds(S) == { m \in S : AddMonths(m, 1) \notin S }
MonthsBetween(a, b) ==
    { AddMonths(a, k) : k \in 0..(MonthIndex(b) - MonthIndex(a)) }
CountOf(c, s) == Cardinality({ i \in 1..Len(s) : s[i] = c })

(***************************************************************************)
(* C1. For a reference interval [start, end] of calendar months with       *)
(* start <= end, iterate_months returns exactly the calendar months from   *)
(* start to end in ascending order, December being followed by January of  *)
(* the next year, and never a value whose month part is outside 1..12; for *)
(* the interval [202011, 202102] and the observations {202011, 202102}     *)
(* the missing months are 202012, 202101 and they are rendered as the      *)
(* single range "2020-12~2021-01".                                         *)
(***************************************************************************)
C1_IterateMonthsIsCalendar ==
    /\ \A i \in 1..Len(im_months) : IsCalendarMonth(im_months[i])
    /\ (im_pc \in {"done", "summarized"} /\ im_start <= im_end) =>
          im_months = [i \in 1..(MonthIndex(im_end) - MonthIndex(im_start) + 1)
                          |-> AddMonths(im_start, i - 1)]
    /\ (/\ im_pc = "summarized"
        /\ im_start = 202011 /\ im_end = 202102
        /\ year_months = {202011, 202102}) =>
          /\ missing = <<202012, 202101>>
          /\ missing_ranges = <<"2", "0", "2", "0", "-", "1", "2", "~",
                                "2", "0", "2", "1", "-", "0", "1">>

C1_Witness ==
    /\ im_pc = "summarized"
    /\ im_start = 202011 /\ im_end = 202102
    /\ im_months = <<202011, 202012, 202101, 202102>>
    /\ year_months = {202011, 202102}
    /\ Len(missing_ranges) = 15

(***************************************************************************)
(* C7. months_to_ranges with cap 6 renders at most 6 explicit labels: with *)
(* more than 6 maximal runs the output is the labels of the 6 earliest     *)
(* runs in ascending order followed by one ellipsis marker; with 6 or      *)
(* fewer runs it is all run labels and no ellipsis marker; the empty set   *)
(* renders as the empty text.                                              *)
(***************************************************************************)
C7_SegmentCap ==
    mr_pc = "returned" =>
      LET starts == sorted(RunStarts(mr_months))
          ends == sorted(RunEnds(mr_months))
          n == Len(starts)
          shown == IF n > 6 THEN 6 ELSE n
      IN /\ \A i \in 1..shown :
               LabelDenotes(mr_labels[i], starts[i], ends[i])
         /\ n > 6 => /\ Len(mr_labels) = 7
                     /\ mr_labels[7] = <<"...">>
                     /\ CountOf("...", mr_text) = 1
                     /\ mr_text[Len(mr_text)] = "..."
         /\ n <= 6 => /\ Len(mr_labels) = n
                      /\ CountOf("...", mr_text) = 0
         /\ mr_text = join(<<",", " ">>, mr_labels)
         /\ mr_months = {} => mr_text = << >>

C7_Witness ==
    /\ mr_pc = "returned"
    /\ Cardinality(RunStarts(mr_months)) = 8
    /\ Len(mr_labels) = 7
    /\ mr_labels[7] = <<"...">>

(***************************************************************************)
(* C10. For a set of months whose runs do not exceed the segment cap, the  *)
(* segments of months_to_ranges are exactly the maximal runs of            *)
(* calendar-consecutive months: ascending and pairwise disjoint, covering  *)
(* exactly the input set, no segment starting at the calendar successor of *)
(* the end of the previous one (also across December/January); a one-month *)
(* segment renders as zero-padded YYYY-MM, a longer one as start~end.      *)
(***************************************************************************)
C10_SegmentsAreMaximalRuns ==
    (mr_pc = "returned"
       /\ Cardinality(RunStarts(mr_months)) <= DefaultMaxSegments) =>
      LET n == Len(mr_segments) IN
      /\ \A i \in 1..n : mr_segments[i][1] <= mr_segments[i][2]
      /\ \A i \in 1..(n - 1) :
            /\ mr_segments[i][2] < mr_segments[i + 1][1]
            /\ mr_segments[i + 1][1] # AddMonths(mr_segments[i][2], 1)
      /\ UNION { MonthsBetween(mr_segments[i][1], mr_segments[i][2])
                   : i \in 1..n } = mr_months
      /\ Len(mr_labels) = n
      /\ \A i \in 1..n :
            /\ LabelDenotes(mr_labels[i], mr_segments[i][1], mr_segments[i][2])
            /\ (mr_segments[i][1] = mr_segments[i][2]) <=> (Len(mr_labels[i]) = 7)

C10_Witness ==
    /\ mr_pc = "returned"
    /\ mr_months = {202010, 202012, 202101}
    /\ mr_segments = << <<202010, 202010>>, <<202012, 202101>> >>
    /\ mr_labels[1] = <<"2", "0", "2", "0", "-", "1", "0">>

(***************************************************************************)
(* normalize_all_data_dates.py: tables, cells and pandas' reading of them. *)
(* A table is [names |-> column names, cells |-> one sequence of cell      *)
(* texts per column]; names and cells are texts; the empty text is an      *)
(* empty CSV field (NaN once read).                                        *)
(***************************************************************************)
\* pd.NA / NaN of a numeric series, and None of an Optional[int]
NA == -1
\* None of an Optional[str] column name (falsy, like the empty string)
NoCol == << >>

IsNaN(t) == Len(t) = 0
IsIntText(t) == Len(t) > 0 /\ \A i \in 1..Len(t) : IsDigit(t[i])
\* the only float texts that arise: an integral float written by to_csv
IsFloatText(t) ==
    /\ Len(t) >= 3
    /\ t[Len(t) - 1] = "." /\ t[Len(t)] = "0"
    /\ IsIntText(SubSeq(t, 1, Len(t) - 2))
NumVal(t) == IF IsFloatText(t) THEN ParseNat(SubSeq(t, 1, Len(t) - 2))
             ELSE ParseNat(t)

\* read_csv's dtype of a column: int64 when every field is an integer,
\* float64 when every field is a number or empty, object otherwise
Dtype(cells) ==
    IF Len(cells) = 0 THEN "object"
    ELSE IF \A i \in 1..Len(cells) : IsIntText(cells[i]) THEN "int64"
    ELSE IF \A i \in 1..Len(cells) :
              IsNaN(cells[i]) \/ IsIntText(cells[i]) \/ IsFloatText(cells[i])
         THEN "float64"
    ELSE "object"

\* Series.astype(str) of one value of a column of the given dtype
astype_str(dtype, t) ==
    IF IsNaN(t) THEN <<"n", "a", "n">>
    ELSE IF dtype = "int64" THEN int_str(NumVal(t))
    ELSE IF dtype = "float64" THEN int_str(NumVal(t)) \o <<".", "0">>
    ELSE t

\* to_csv's field for one value of a column read with the given dtype
to_csv_field(dtype, t) == IF IsNaN(t) THEN << >> ELSE astype_str(dtype, t)

\* to_csv's field for one value of a nullable Int64 series
int64_field(v) == IF v = NA THEN << >> ELSE int_str(v)

\* .str.replace(r"[^0-9]", "", regex=True)
strip_non_digits(s) == SelectSeq(s, IsDigit)

\* pd.to_numeric(errors="coerce") of a text of digits
digits_to_numeric(d) == IF Len(d) = 0 THEN NA ELSE ParseNat(d)

\* Series.between(lo, hi), false on NaN
between(v, lo, hi) == v # NA /\ lo <= v /\ v <= hi

\* python slice s[a:b] (0-based, end exclusive)
slice(s, a, b) == SubSeq(s, a + 1, IF b < Len(s) THEN b ELSE Len(s))

\* series.dropna().astype(str).str.replace(r"[^0-9]", "", regex=True)
digits_of_kept(dtype, kept) ==
    [i \in 1..Len(kept) |-> strip_non_digits(astype_str(dtype, kept[i]))]
digits_of(cells) ==
    digits_of_kept(Dtype(cells), SelectSeq(cells, LAMBDA t : ~IsNaN(t)))

\* valid.mean() >= num/10 for a non-empty boolean series given as the set of
\* its true positions
mean_at_least(true_positions, n, num) ==
    10 * Cardinality(true_positions) >= num * n

\* is_year_series, lines 61-71
\* lines 67-71 on the digit texts of a column
share_between(digits, lo, hi) ==
    IF Len(digits) = 0 THEN FALSE
    ELSE mean_at_least({ i \in 1..Len(digits) :
                           between(digits_to_numeric(digits[i]), lo, hi) },
                       Len(digits), 8)

is_year_series(cells) == share_between(digits_of(cells), 1900, 2100)

\* is_month_series, lines 74-84
is_month_series(cells) == share_between(digits_of(cells), 1, 12)

\* the characters of column names, cells and file names
Whitespace == {" "}
lower_char(c) == CASE c = "Y" -> "y" [] c = "M" -> "m" [] OTHER -> c

\* normalize_column_name, lines 57-58: re.sub(r"\s+", "", name).lower()
lower(s) == [i \in 1..Len(s) |-> lower_char(s[i])]
normalize_column_name(name) ==
    lower(SelectSeq(name, LAMBDA c : c \notin Whitespace))

\* needle in hay, and hay.endswith(needle)
contains(hay, needle) ==
    \E i \in 1..(Len(hay) - Len(needle) + 1) :
        SubSeq(hay, i, i + Len(needle) - 1) = needle
endswith(hay, needle) ==
    /\ Len(hay) >= Len(needle)
    /\ SubSeq(hay, Len(hay) - Len(needle) + 1, Len(hay)) = needle

\* lines 15-17
YEAR_KEYWORDS == { <<"y", "e", "a", "r">>, <<"nyeon", "do">>, <<"yeon", "do">> }
MONTH_KEYWORDS == { <<"m", "o", "n", "t", "h">>, <<"wol">> }
DATE_COLUMN_HINTS ==
    { <<"nyeon">>, <<"wol">>, <<"il">>, <<"d", "a", "t", "e">>,
      <<"nal", "jja">>, <<"gi", "jun">>,
      <<"p", "e", "r", "i", "o", "d">>, <<"gi", "gan">> }

\* lines 92-94 and 98-100: the name tests of the first loop
year_keyword(normalized) ==
    normalized \in YEAR_KEYWORDS \/ endswith(normalized, <<"nyeon", "do">>)
month_keyword(normalized) ==
    normalized \in MONTH_KEYWORDS \/ normalized = <<"gi", "jun", "wol">>
year_named(name) == year_keyword(normalize_column_name(name))
month_named(name) == month_keyword(normalize_column_name(name))

ColumnCount(df) == Len(df.names)
ColumnIndex(df, name) == CHOOSE i \in 1..Len(df.names) : df.names[i] = name
Column(df, name) == df.cells[ColumnIndex(df, name)]
HasColumn(df, name) == \E i \in 1..Len(df.names) : df.names[i] = name
RowCount(df) == IF Len(df.cells) = 0 THEN 0 ELSE Len(df.cells[1])

\* the first loop with the guards "is None" dropped: the last match wins
RECURSIVE NameLoopLastWins(_, _, _, _)
NameLoopLastWins(df, i, year_col, month_col) ==
    IF i > ColumnCount(df) THEN <<year_col, month_col>>
    ELSE LET column == df.names[i]
             series == df.cells[i]
         IN IF year_named(column) /\ is_year_series(series)
            THEN NameLoopLastWins(df, i + 1, column, month_col)
            ELSE IF month_named(column) /\ is_month_series(series)
            THEN NameLoopLastWins(df, i + 1, year_col, column)
            ELSE NameLoopLastWins(df, i + 1, year_col, month_col)

\* lines 89-103: the first loop, from column i on, carrying (year_col, month_col)
RECURSIVE NameLoop(_, _, _, _)
NameLoop(df, i, year_col, month_col) ==
    IF i > ColumnCount(df) THEN <<year_col, month_col>>
    ELSE LET column == df.names[i]
             series == df.cells[i]
         IN IF year_col = NoCol /\ year_named(column) /\ is_year_series(series)
            THEN NameLoop(df, i + 1, column, month_col)
            ELSE IF /\ month_col = NoCol /\ month_named(column)
                    /\ is_month_series(series)
            THEN NameLoop(df, i + 1, year_col, column)
            ELSE NameLoop(df, i + 1, year_col, month_col)

\* lines 107-125: whether a column is accepted as the combined date column
hinted(normalized) ==
    \E hint \in DATE_COLUMN_HINTS : contains(normalized, hint)

\* lines 116-124 on the digit texts of a column
date_shaped(digits) ==
    /\ Len(digits) > 0
    /\ mean_at_least({ i \in 1..Len(digits) :
                         Len(digits[i]) >= 6 /\ Len(digits[i]) <= 8 },
                     Len(digits), 6)
    /\ mean_at_least(
           { i \in 1..Len(digits) :
               /\ digits_to_numeric(slice(digits[i], 0, 6)) # NA
               /\ between(digits_to_numeric(slice(digits[i], 4, 6)), 1, 12) },
           Len(digits), 6)

combined_accepts(column, series) ==
    /\ hinted(normalize_column_name(column))
    /\ date_shaped(digits_of(series))

\* lines 105-126: the second loop, the first accepted column or None
first_hit(df, hits) == IF hits = {} THEN NoCol ELSE df.names[SetMin(hits)]
combined_scan(df) ==
    first_hit(df, { i \in 1..ColumnCount(df) :
                      combined_accepts(df.names[i], df.cells[i]) })

\* lines 105 and 128: the second loop runs when a slot is still empty
with_combined(df, first) ==
    [year_col |-> first[1],
     month_col |-> first[2],
     combined_col |-> IF first[1] = NoCol \/ first[2] = NoCol
                      THEN combined_scan(df) ELSE NoCol]

\* detect_date_columns, lines 87-128
detect_date_columns(df) == with_combined(df, NameLoop(df, 1, NoCol, NoCol))

\* lines 13 and 47-54: PERIOD_PATTERN = ^(\d{6})-(\d{6})_ matched at the start
\* of the file name; (year, month) of the start token, or (None, None)
period_matches(name) ==
    /\ Len(name) >= 14
    /\ \A i \in 1..6 : IsDigit(name[i])
    /\ name[7] = "-"
    /\ \A i \in 8..13 : IsDigit(name[i])
    /\ name[14] = "_"

parse_period_from_name(name) ==
    IF ~period_matches(name) THEN <<NA, NA>>
    ELSE LET start == ParseNat(SubSeq(name, 1, 6))
         IN <<start \div 100, start % 100>>

\* extract_year_month_from_series, lines 131-138, for one cell: (year, month)
where_valid(year, month) ==
    IF between(year, 1900, 2100) /\ between(month, 1, 12)
    THEN <<year, month>> ELSE <<NA, NA>>
year_month_of_digits(values) ==
    where_valid(digits_to_numeric(slice(values, 0, 4)),
                digits_to_numeric(slice(values, 4, 6)))
extract_year_month_from_cell(dtype, t) ==
    year_month_of_digits(strip_non_digits(astype_str(dtype, t)))
extract_with_dtype(dtype, cells) ==
    [i \in 1..Len(cells) |-> extract_year_month_from_cell(dtype, cells[i])]
extract_year_month_from_series(cells) == extract_with_dtype(Dtype(cells), cells)

\* ensure_int_series, lines 141-142: to_numeric(errors="coerce") as Int64
ensure_int_series(cells) ==
    [i \in 1..Len(cells) |->
        IF IsIntText(cells[i]) \/ IsFloatText(cells[i])
        THEN NumVal(cells[i]) ELSE NA]

\* lines 170-182: the constant series built from a fallback value
fallback_series(df, fallback) == [i \in 1..RowCount(df) |-> fallback]

\* lines 155-160 and 184: the series read from the year and month columns
\* (empty when the column is None) and the columns they came from
direct_series(df, col) ==
    IF col # NoCol THEN ensure_int_series(Column(df, col)) ELSE << >>
related_of(info, use_combined) ==
    (IF info.year_col # NoCol THEN <<info.year_col>> ELSE << >>)
    \o (IF info.month_col # NoCol THEN <<info.month_col>> ELSE << >>)
    \o (IF use_combined THEN <<info.combined_col>> ELSE << >>)

\* line 162: whether the combined column is read
use_combined(info) ==
    (info.year_col = NoCol \/ info.month_col = NoCol)
        /\ info.combined_col # NoCol

combined_series(df, info) ==
    IF use_combined(info)
    THEN extract_year_month_from_series(Column(df, info.combined_col))
    ELSE << >>

\* lines 155-184 with the file name's period preferred to the combined column
choose_series_name_first(df, info, combined, fallback_year, fallback_month) ==
    [year_series |-> IF info.year_col # NoCol
                     THEN direct_series(df, info.year_col)
                     ELSE fallback_series(df, fallback_year),
     month_series |-> IF info.month_col # NoCol
                      THEN direct_series(df, info.month_col)
                      ELSE fallback_series(df, fallback_month),
     related_columns |-> related_of(info, use_combined(info))]

\* lines 155-184: each series from its own column, else from the combined
\* column, else the constant from the file name
choose_series(df, info, combined, fallback_year, fallback_month) ==
    [year_series |->
        IF info.year_col # NoCol THEN direct_series(df, info.year_col)
        ELSE IF use_combined(info)
        THEN [i \in 1..Len(combined) |-> combined[i][1]]
        ELSE fallback_series(df, fallback_year),
     month_series |->
        IF info.month_col # NoCol THEN direct_series(df, info.month_col)
        ELSE IF use_combined(info)
        THEN [i \in 1..Len(combined) |-> combined[i][2]]
        ELSE fallback_series(df, fallback_month),
     related_columns |-> related_of(info, use_combined(info))]

\* determine_year_month, lines 145-184
determine_year_month(df, info, fallback_year, fallback_month) ==
    choose_series(df, info, combined_series(df, info),
                  fallback_year, fallback_month)

YEAR == <<"y", "e", "a", "r">>
MONTH == <<"m", "o", "n", "t", "h">>

\* lines 205-215: append to order every column of cols not yet in it
\* (columns named year or month are in order from the start)
RECURSIVE append_unseen(_, _)
append_unseen(order, cols) ==
    IF Len(cols) = 0 THEN order
    ELSE IF \E i \in 1..Len(order) : order[i] = Head(cols)
    THEN append_unseen(order, Tail(cols))
    ELSE append_unseen(Append(order, Head(cols)), Tail(cols))

\* lines 203-215 without the loop over related_columns
column_order_plain(df, related_columns) ==
    append_unseen(<<YEAR, MONTH>>, df.names)

\* lines 203-215: year, month, the related columns, then the other columns
column_order(df, related_columns) ==
    append_unseen(
        append_unseen(<<YEAR, MONTH>>,
                      SelectSeq(related_columns,
                                LAMBDA c : HasColumn(df, c))),
        df.names)

\* line 218: the fields of one written column
written_column(df, ym, c) ==
    IF c = YEAR THEN [r \in 1..RowCount(df) |-> int64_field(ym.year_series[r])]
    ELSE IF c = MONTH
    THEN [r \in 1..RowCount(df) |-> int64_field(ym.month_series[r])]
    ELSE [r \in 1..RowCount(df) |->
            to_csv_field(Dtype(Column(df, c)), Column(df, c)[r])]

\* lines 200-218: the table written back
written_table(df, ym, order) ==
    [names |-> order,
     cells |-> [k \in 1..Len(order) |-> written_column(df, ym, order[k])]]

\* lines 193-218
write_back(df, info, ym) ==
    [info |-> info,
     related |-> ym.related_columns,
     year_series |-> ym.year_series,
     month_series |-> ym.month_series,
     written |-> written_table(df, ym, column_order(df, ym.related_columns))]

\* lines 191-198
classify_and_write(df, info, fallback) ==
    write_back(df, info, determine_year_month(df, info, fallback[1], fallback[2]))

\* process_file, lines 187-219, for a file that decodes: the table written
\* back, with what was classified and the two series
process_file(df, name) ==
    classify_and_write(df, detect_date_columns(df), parse_period_from_name(name))

(***************************************************************************)
(* The files process_file is run on: a name with or without the period     *)
(* prefix, and a table of up to MaxCols distinct columns and MaxRows rows. *)
(***************************************************************************)
NYEONDO == <<"nyeon", "do">>
WOL == <<"wol">>
GIJUNIL == <<"gi", "jun", "il">>
MEMO == <<"M", "e", "m", "o">>
ColumnNames == {YEAR, NYEONDO, WOL, GIJUNIL, MEMO}

\* the cell texts a column of each name is filled from; the years and months
\* in cells (2021, 7) differ from those of the file name (2020, 3)
CellsFor(name) ==
    IF name \in {YEAR, NYEONDO}
    THEN { << >>, <<"2", "0", "2", "1">>, <<"2", "0", "2", "1", "nyeon">> }
    ELSE IF name = WOL
    THEN { << >>, <<"7">>, <<"7", "wol">> }
    ELSE IF name = GIJUNIL
    THEN { << >>, <<"2", "0", "2", "1", "0", "7">>,
           <<"2", "0", "2", "1", "-", "0", "7", "-", "1", "5">> }
    ELSE { <<"x">> }

\* "202003-202005_foo.csv" and "foo.csv"
PeriodFileName == <<"2", "0", "2", "0", "0", "3", "-", "2", "0", "2", "0", "0", "5",
                    "_", "f", "o", "o", ".", "c", "s", "v">>
PlainFileName == <<"f", "o", "o", ".", "c", "s", "v">>
FileNames == {PeriodFileName, PlainFileName}

Headers ==
    UNION { { h \in [1..k -> ColumnNames] :
                \A i, j \in 1..k : h[i] = h[j] => i = j } : k \in 1..MaxCols }

RECURSIVE Contents(_, _)
Contents(h, n) ==
    IF Len(h) = 0 THEN { << >> }
    ELSE { <<col>> \o rest : col \in [1..n -> CellsFor(Head(h))],
                             rest \in Contents(Tail(h), n) }

\* the tables with header h and n rows
TablesOf(h, n) == { [names |-> h, cells |-> c] : c \in Contents(h, n) }

NoInfo == [year_col |-> NoCol, month_col |-> NoCol, combined_col |-> NoCol]
NoTable == [names |-> << >>, cells |-> << >>]

InitNorm ==
    /\ nf_name \in FileNames
    /\ \E h \in Headers, n \in 0..MaxRows : nf_table \in TablesOf(h, n)
    /\ nf_input = NoTable
    /\ nf_info = NoInfo
    /\ nf_related = << >>
    /\ nf_passes = << >>
    /\ ImIdle
    /\ SmIdle
    /\ MrIdle
    /\ ExIdle
    /\ RnIdle
    /\ BtIdle
    /\ EnIdle

\* process_file(path), lines 187-219, on a file whose header decodes
ProcessFile ==
    /\ Len(nf_passes) < MaxPasses
    /\ \E out \in {process_file(nf_table, nf_name)} :
          /\ nf_input' = nf_table
          /\ nf_table' = out.written
          /\ nf_info' = out.info
          /\ nf_related' = out.related
          /\ nf_passes' = Append(nf_passes, [year |-> out.year_series,
                                             month |-> out.month_series])
    /\ UNCHANGED <<nf_name, norm_frame, ex_vars>>

NextNorm == ProcessFile

SpecNorm == InitNorm /\ [][NextNorm]_vars

(***************************************************************************)
(* Reading a pass of process_file: its input header, its output header and *)
(* the series it wrote.                                                    *)
(***************************************************************************)
PassDone == Len(nf_passes) >= 1
LastPass == nf_passes[Len(nf_passes)]
Pos(seq, x) == CHOOSE i \in 1..Len(seq) : seq[i] = x
Occurrences(seq, x) == Cardinality({ i \in 1..Len(seq) : seq[i] = x })
\* the input columns other than year and month
Retained == { c \in Range(nf_input.names) : c \notin {YEAR, MONTH} }
\* the classified source columns that are moved forward
Moved == { c \in Range(nf_related) : c \notin {YEAR, MONTH} }
AnyClassified ==
    \/ nf_info.year_col # NoCol
    \/ nf_info.month_col # NoCol
    \/ nf_info.combined_col # NoCol
InputRows == 1..RowCount(nf_input)
InputCell(col, r) == Column(nf_input, col)[r]
\* the number a cell of a dedicated year or month column holds, if it is one
IsNumberCell(t) == IsIntText(t) \/ IsFloatText(t)
\* the year and month the leading six digits of a combined cell spell
CombinedYear(t) == ParseNat(slice(strip_non_digits(t), 0, 4))
CombinedMonth(t) == ParseNat(slice(strip_non_digits(t), 4, 6))

\* row r's year (month) is missing or is what the row's cell of the
\* classified column says
YearFromColumn(r) ==
    \/ LastPass.year[r] = NA
    \/ /\ nf_info.year_col # NoCol
       /\ IsNumberCell(InputCell(nf_info.year_col, r))
       /\ LastPass.year[r] = NumVal(InputCell(nf_info.year_col, r))
    \/ /\ nf_info.year_col = NoCol /\ nf_info.combined_col # NoCol
       /\ LastPass.year[r] = CombinedYear(InputCell(nf_info.combined_col, r))
MonthFromColumn(r) ==
    \/ LastPass.month[r] = NA
    \/ /\ nf_info.month_col # NoCol
       /\ IsNumberCell(InputCell(nf_info.month_col, r))
       /\ LastPass.month[r] = NumVal(InputCell(nf_info.month_col, r))
    \/ /\ nf_info.month_col = NoCol /\ nf_info.combined_col # NoCol
       /\ LastPass.month[r] = CombinedMonth(InputCell(nf_info.combined_col, r))

(***************************************************************************)
(* C2. Running process_file again on a file it has already rewritten       *)
(* leaves the year and month of every row as the first pass wrote them     *)
(* (missing stays missing).  The code does not keep this: see C2 in        *)
(* RESULTS.json.                                                           *)
(***************************************************************************)
C2_SecondPassKeepsYearMonth ==
    Len(nf_passes) >= 2 => nf_passes[2] = nf_passes[1]

(***************************************************************************)
(* C4, as claimed. The written table has year and month first, followed by *)
(* every other input column exactly once in the input's relative order.    *)
(***************************************************************************)
C4_InputOrderKept ==
    PassDone =>
      /\ Len(nf_table.names) >= 2
      /\ nf_table.names[1] = YEAR /\ nf_table.names[2] = MONTH
      /\ SubSeq(nf_table.names, 3, Len(nf_table.names))
           = SelectSeq(nf_input.names, LAMBDA c : c \notin {YEAR, MONTH})

(***************************************************************************)
(* C4, amended. The written table has year and month first, then the       *)
(* classified source columns (year column, month column, combined column,  *)
(* in that order), then every remaining input column in the input's        *)
(* relative order; every input column other than year and month occurs     *)
(* exactly once.                                                           *)
(***************************************************************************)
C4_ColumnOrder ==
    PassDone =>
      LET out == nf_table.names
          moved == SelectSeq(<<nf_info.year_col, nf_info.month_col,
                               nf_info.combined_col>>,
                             LAMBDA c : c \in Moved)
      IN /\ Len(out) = 2 + Cardinality(Retained)
         /\ out[1] = YEAR /\ out[2] = MONTH
         /\ \A c \in Retained : Occurrences(out, c) = 1
         /\ Occurrences(out, YEAR) = 1 /\ Occurrences(out, MONTH) = 1
         /\ \A k \in 1..Len(moved) : out[2 + k] = moved[k]
         /\ \A a, b \in Retained \ Moved :
               Pos(nf_input.names, a) < Pos(nf_input.names, b)
                   => Pos(out, a) < Pos(out, b)

C4_Witness ==
    /\ Len(nf_passes) = 1
    /\ nf_input.names = <<MEMO, NYEONDO>>
    /\ nf_info.year_col = NYEONDO
    /\ nf_table.names = <<YEAR, MONTH, NYEONDO, MEMO>>

(***************************************************************************)
(* C5, as claimed. The period of the file name contributes only when no    *)
(* date column was classified: if any of year_col, month_col, combined_col *)
(* was classified, every year and every month written is missing or read   *)
(* from a classified column; if none was and the name carries a period,    *)
(* every row gets the period's start year and start month.                 *)
(***************************************************************************)
C5_NameOnlyWhenNothingClassified ==
    PassDone =>
      /\ AnyClassified =>
            \A r \in InputRows : YearFromColumn(r) /\ MonthFromColumn(r)
      /\ (~AnyClassified /\ nf_name = PeriodFileName) =>
            \A r \in InputRows :
                LastPass.year[r] = 2020 /\ LastPass.month[r] = 3

(***************************************************************************)
(* C5, amended. The year of the file name's period is used for the year    *)
(* series exactly when neither year_col nor combined_col was classified,   *)
(* and its month for the month series exactly when neither month_col nor   *)
(* combined_col was classified; otherwise the value is missing or read     *)
(* from the classified column.  With nothing classified and a name such as *)
(* 202003-202005_foo.csv every row gets year 2020 and month 3; without a   *)
(* period in the name the series is missing.                               *)
(***************************************************************************)
C5_NamePerSeries ==
    PassDone =>
      LET year_source == nf_info.year_col # NoCol \/ nf_info.combined_col # NoCol
          month_source == nf_info.month_col # NoCol \/ nf_info.combined_col # NoCol
          name_year == IF nf_name = PeriodFileName THEN 2020 ELSE NA
          name_month == IF nf_name = PeriodFileName THEN 3 ELSE NA
      IN \A r \in InputRows :
            /\ year_source => YearFromColumn(r)
            /\ ~year_source => LastPass.year[r] = name_year
            /\ month_source => MonthFromColumn(r)
            /\ ~month_source => LastPass.month[r] = name_month

C5_Witness ==
    /\ Len(nf_passes) = 1
    /\ nf_name = PeriodFileName
    /\ nf_input.names = <<NYEONDO, MEMO>>
    /\ nf_info = [year_col |-> NYEONDO, month_col |-> NoCol, combined_col |-> NoCol]
    /\ LastPass = [year |-> <<2021>>, month |-> <<3>>]

(***************************************************************************)
(* C8, as claimed. A column named exactly "year" that holds only integers  *)
(* in 1900..2100 is assigned as year_col, whatever the other columns are   *)
(* and wherever they stand.                                                *)
(***************************************************************************)
YearColumnIsClean ==
    /\ HasColumn(nf_input, YEAR)
    /\ \A r \in InputRows :
          /\ IsIntText(InputCell(YEAR, r))
          /\ ParseNat(InputCell(YEAR, r)) \in 1900..2100

C8_YearColumnAlwaysAssigned ==
    (PassDone /\ YearColumnIsClean /\ RowCount(nf_input) >= 1)
        => nf_info.year_col = YEAR

(***************************************************************************)
(* C8, amended. For a table with at least one row and a column named       *)
(* exactly "year" holding only integers in 1900..2100, year_col is the     *)
(* first column in column order whose normalised name is a year keyword    *)
(* and whose values pass the 80% range test: the "year" column itself      *)
(* unless such a column stands before it.                                  *)
(***************************************************************************)
C8_FirstYearColumnAssigned ==
    (PassDone /\ YearColumnIsClean /\ RowCount(nf_input) >= 1) =>
      LET names == nf_input.names
          qualifies(i) == year_named(names[i]) /\ is_year_series(nf_input.cells[i])
      IN /\ nf_info.year_col # NoCol
         /\ Pos(names, nf_info.year_col) <= Pos(names, YEAR)
         /\ qualifies(Pos(names, nf_info.year_col))
         /\ \A i \in 1..(Pos(names, nf_info.year_col) - 1) : ~qualifies(i)
         /\ (\A i \in 1..(Pos(names, YEAR) - 1) : ~year_named(names[i]))
               => nf_info.year_col = YEAR

C8_Witness ==
    /\ Len(nf_passes) = 1
    /\ nf_input.names = <<MEMO, YEAR>>
    /\ YearColumnIsClean /\ RowCount(nf_input) = 1
    /\ nf_info.year_col = YEAR

(***************************************************************************)
(* summarize_missing_periods.py: extract_year_months, lines 87-118, with   *)
(* the two DATE_PATTERNS of lines 15-18 matched character by character.    *)
(***************************************************************************)
CharAt(s, i) == IF i >= 1 /\ i <= Len(s) THEN s[i] ELSE ""
IsDigitAt(s, i) == i >= 1 /\ i <= Len(s) /\ IsDigit(s[i])

\* (20\d{2}) at position i
year_at(s, i) ==
    /\ CharAt(s, i) = "2" /\ CharAt(s, i + 1) = "0"
    /\ IsDigitAt(s, i + 2) /\ IsDigitAt(s, i + 3)

\* (0[1-9]|1[0-2]) at position k
two_digit_month_at(s, k) ==
    \/ CharAt(s, k) = "0" /\ IsDigitAt(s, k + 1) /\ CharAt(s, k + 1) # "0"
    \/ CharAt(s, k) = "1" /\ CharAt(s, k + 1) \in {"0", "1", "2"}

\* the match of (20\d{2})[-./]?(0[1-9]|1[0-2]) starting at i, as
\* <<year, month, position after the match>>, or << >>
match_compact(s, i) ==
    IF ~year_at(s, i) THEN << >>
    ELSE IF CharAt(s, i + 4) \in {"-", ".", "/"} /\ two_digit_month_at(s, i + 5)
    THEN <<ParseNat(SubSeq(s, i, i + 3)), ParseNat(SubSeq(s, i + 5, i + 6)), i + 7>>
    ELSE IF two_digit_month_at(s, i + 4)
    THEN <<ParseNat(SubSeq(s, i, i + 3)), ParseNat(SubSeq(s, i + 4, i + 5)), i + 6>>
    ELSE << >>

\* the match of (20\d{2})\D(1[0-2]|0?[1-9]) starting at i
match_separated(s, i) ==
    IF ~(year_at(s, i) /\ i + 4 <= Len(s) /\ ~IsDigit(s[i + 4])) THEN << >>
    ELSE IF CharAt(s, i + 5) = "1" /\ CharAt(s, i + 6) \in {"0", "1", "2"}
    THEN <<ParseNat(SubSeq(s, i, i + 3)), ParseNat(SubSeq(s, i + 5, i + 6)), i + 7>>
    ELSE IF CharAt(s, i + 5) = "0" /\ IsDigitAt(s, i + 6) /\ CharAt(s, i + 6) # "0"
    THEN <<ParseNat(SubSeq(s, i, i + 3)), ParseNat(SubSeq(s, i + 6, i + 6)), i + 7>>
    ELSE IF IsDigitAt(s, i + 5) /\ CharAt(s, i + 5) # "0"
    THEN <<ParseNat(SubSeq(s, i, i + 3)), ParseNat(SubSeq(s, i + 5, i + 5)), i + 6>>
    ELSE << >>

\* lines 110-116: what one match adds to months
match_month(m) ==
    IF m[1] >= 2000 /\ m[1] <= 2030 /\ m[2] >= 1 /\ m[2] <= 12
    THEN {m[1] * 100 + m[2]} ELSE {}

\* pattern.finditer(value) from position i on, for each of the two patterns
RECURSIVE scan_compact(_, _)
scan_compact(s, i) ==
    IF i > Len(s) THEN {}
    ELSE IF match_compact(s, i) # << >>
    THEN match_month(match_compact(s, i)) \cup scan_compact(s, match_compact(s, i)[3])
    ELSE scan_compact(s, i + 1)

RECURSIVE scan_separated(_, _)
scan_separated(s, i) ==
    IF i > Len(s) THEN {}
    ELSE IF match_separated(s, i) # << >>
    THEN match_month(match_separated(s, i))
             \cup scan_separated(s, match_separated(s, i)[3])
    ELSE scan_separated(s, i + 1)

\* lines 105-116: the months found in the stringified values of every column
scan_column(dtype, cells) ==
    UNION { scan_compact(astype_str(dtype, cells[r]), 1)
                \cup scan_separated(astype_str(dtype, cells[r]), 1)
              : r \in { r \in 1..Len(cells) : ~IsNaN(cells[r]) } }
pattern_months(df) ==
    UNION { scan_column(Dtype(df.cells[c]), df.cells[c]) : c \in 1..ColumnCount(df) }

\* lines 90-91: pd.to_numeric(errors="coerce") of one cell
to_numeric_cell(t) == IF IsIntText(t) \/ IsFloatText(t) THEN NumVal(t) ELSE NA

\* lines 92-103 on the two columns
combine_rows(years, months) ==
    { to_numeric_cell(years[r]) * 100 + to_numeric_cell(months[r]) :
        r \in { r \in 1..Len(years) :
                  /\ to_numeric_cell(years[r]) # NA
                  /\ to_numeric_cell(months[r]) # NA
                  /\ to_numeric_cell(years[r]) >= 2000
                  /\ to_numeric_cell(years[r]) <= 2030
                  /\ to_numeric_cell(months[r]) >= 1
                  /\ to_numeric_cell(months[r]) <= 12 } }


\* lines 89-103: the row-wise months of the columns named U+B144 U+B3C4 and
\* U+C6D4, when the table has both
row_months(df) ==
    IF HasColumn(df, NYEONDO) /\ HasColumn(df, WOL)
    THEN combine_rows(Column(df, NYEONDO), Column(df, WOL))
    ELSE {}

\* extract_year_months, lines 87-118
extract_year_months(df) == row_months(df) \cup pattern_months(df)

\* the file as first given, or after process_file has rewritten it once, is
\* read by extract_year_months
InitExtract == InitNorm

NormalizeFirst ==
    /\ ex_pc = "idle"
    /\ Len(nf_passes) = 0
    /\ ProcessFile

ExtractYearMonths ==
    /\ ex_pc = "idle"
    /\ ex_table' = nf_table
    /\ ex_months' = extract_year_months(nf_table)
    /\ ex_pc' = "returned"
    /\ UNCHANGED <<nf_vars, norm_frame>>

NextExtract == NormalizeFirst \/ ExtractYearMonths

SpecExtract == InitExtract /\ [][NextExtract]_vars

\* the dedicated year/month column pairs: the U+B144 U+B3C4 / U+C6D4 pair and
\* the year/month pair process_file writes
DedicatedPairs == { <<NYEONDO, WOL>>, <<YEAR, MONTH>> }
InWindow(y, m) == y >= 2000 /\ y <= 2030 /\ m >= 1 /\ m <= 12
RowsCombined(df, pair) ==
    \A r \in 1..RowCount(df) :
        LET y == to_numeric_cell(Column(df, pair[1])[r])
            m == to_numeric_cell(Column(df, pair[2])[r])
        IN  (y # NA /\ m # NA /\ InWindow(y, m)) => (y * 100 + m) \in ex_months

\* C6: when the table given to extract_year_months has a dedicated year and
\* month column pair, the pair process_file writes included, the returned
\* set holds year*100+month of every row whose year is in 2000..2030 and
\* whose month is in 1..12, and every element of the returned set has its
\* year in 2000..2030 and its month in 1..12.
C6_DedicatedColumnsCombined ==
    ex_pc = "returned" =>
        /\ \A pair \in DedicatedPairs :
              (HasColumn(ex_table, pair[1]) /\ HasColumn(ex_table, pair[2]))
                  => RowsCombined(ex_table, pair)
        /\ \A v \in ex_months : InWindow(v \div 100, v % 100)

(***************************************************************************)
(* The batch runs: main() of normalize_all_data_dates.py (lines 222-237),  *)
(* of cleanup_all_data_dates.py (lines 49-60) and of                       *)
(* summarize_missing_periods.py (lines 192-230), over a sorted list of     *)
(* files.  A file is "ok" when it reads, "no_encoding" when read_csv       *)
(* raises under every candidate encoding (an empty file), so that          *)
(* detect_encoding raises ValueError, and "bad_body" when the header       *)
(* parses under the detected encoding and the full read raises.            *)
(***************************************************************************)
FileKinds == {"ok", "no_encoding", "bad_body"}
Scripts == {"normalize", "cleanup", "summarize"}

RECURSIVE WorkLists(_)
WorkLists(n) ==
    IF n = 0 THEN { << >> }
    ELSE WorkLists(n - 1)
           \cup { Append(w, k) : w \in { w \in WorkLists(n - 1) : Len(w) = n - 1 },
                                 k \in FileKinds }

\* detect_encoding followed by pd.read_csv: whether an exception comes out
read_raises(kind) == kind \in {"no_encoding", "bad_body"}

\* summarize_file, lines 141-189: the note of the record it returns
summarize_file(kind) == IF read_raises(kind) THEN "read_error" ELSE "summary"

InitBatch ==
    /\ bt_script \in Scripts
    /\ bt_root \in BOOLEAN
    /\ bt_files \in WorkLists(MaxFiles)
    /\ bt_index = 0
    /\ bt_processed = 0
    /\ bt_summaries = << >>
    /\ bt_printed = << >>
    /\ bt_pc = "start"
    /\ ImIdle
    /\ SmIdle
    /\ MrIdle
    /\ NfIdle
    /\ ExIdle
    /\ RnIdle
    /\ EnIdle

\* "if not root.exists(): raise SystemExit(...)"
CheckRoot ==
    /\ bt_pc = "start"
    /\ bt_pc' = IF bt_root THEN "loop" ELSE "exit"
    /\ UNCHANGED <<bt_script, bt_root, bt_files, bt_index, bt_processed,
                   bt_summaries, bt_printed, batch_frame>>

\* one iteration of the loop of a main() that calls process_file bare: an
\* exception of process_file leaves main() and ends the run
bare_iteration ==
    /\ bt_pc = "loop"
    /\ bt_index < Len(bt_files)
    /\ IF read_raises(bt_files[bt_index + 1])
       THEN /\ bt_pc' = "raised"
            /\ UNCHANGED <<bt_index, bt_processed>>
       ELSE /\ bt_index' = bt_index + 1
            /\ bt_processed' = bt_processed + 1
            /\ bt_pc' = "loop"
    /\ UNCHANGED <<bt_script, bt_root, bt_files, bt_summaries, bt_printed,
                   batch_frame>>

\* normalize_all_data_dates.py, lines 233-235
NormalizeFile == bt_script = "normalize" /\ bare_iteration

\* cleanup_all_data_dates.py, lines 56-58
CleanupFile == bt_script = "cleanup" /\ bare_iteration

\* summarize_missing_periods.py, line 199: one element of the comprehension
SummarizeFile ==
    /\ bt_script = "summarize"
    /\ bt_pc = "loop"
    /\ bt_index < Len(bt_files)
    /\ bt_summaries' = Append(bt_summaries, summarize_file(bt_files[bt_index + 1]))
    /\ bt_index' = bt_index + 1
    /\ UNCHANGED <<bt_script, bt_root, bt_files, bt_processed, bt_printed,
                   bt_pc, batch_frame>>

\* the closing print: "Processed {processed} files.", "Cleaned {processed}
\* files." or "Wrote summary for {len(csv_files)} files."
Report ==
    /\ bt_pc = "loop"
    /\ bt_index = Len(bt_files)
    /\ bt_printed' = IF bt_script = "summarize" THEN <<Len(bt_files)>>
                     ELSE <<bt_processed>>
    /\ bt_pc' = "done"
    /\ UNCHANGED <<bt_script, bt_root, bt_files, bt_index, bt_processed,
                   bt_summaries, batch_frame>>

NextBatch == CheckRoot \/ NormalizeFile \/ CleanupFile \/ SummarizeFile \/ Report

SpecBatch == InitBatch /\ [][NextBatch]_vars

\* C3: in every batch run a per-file failure never terminates the run: the
\* run is ended before its report only by a missing root directory, and a
\* run that has ended has handled every file of the list, recorded every
\* failing file as skipped or errored, and reported its file count.
C3_PerFileFailureNeverEndsRun ==
    /\ bt_pc = "exit" => ~bt_root
    /\ bt_pc # "raised"
    /\ bt_pc = "done" =>
          /\ bt_index = Len(bt_files)
          /\ bt_printed # << >>
          /\ bt_script = "summarize" =>
                \A i \in 1..Len(bt_files) :
                    read_raises(bt_files[i]) => bt_summaries[i] = "read_error"

(***************************************************************************)
(* normalize_all_data_dates.py: detect_encoding, lines 27-44.  The file is *)
(* the header line of a single column, given as its bytes; pd.read_csv     *)
(* with nrows=0 under a candidate encoding succeeds when the line is not   *)
(* empty and the codec decodes it.  A decoded text is the sequence of the  *)
(* classes of its characters: "hangul" for U+AC00..U+D7A3, "ascii" for     *)
(* code points below 128, "other" for the rest.  Bytes are written in      *)
(* decimal; the codecs are CPython's utf_8, utf_8_sig, cp949, euc_kr and   *)
(* latin_1 (the 8-byte make-up sequences of euc_kr, which begin with the   *)
(* bytes 164 212, do not occur in the headers drawn).                      *)
(***************************************************************************)
ENCODINGS == <<"utf-8-sig", "utf-8", "cp949", "euc-kr", "latin1">>

DecodeError == <<"error">>
then(class, rest) == IF rest = DecodeError THEN DecodeError ELSE <<class>> \o rest

ByteAt(b, i) == IF i <= Len(b) THEN b[i] ELSE -1
IsCont(x) == x >= 128 /\ x <= 191

\* "가" <= ch <= "힣", ch.isascii()
IsHangul(cp) == cp >= 44032 /\ cp <= 55203
CharClass(cp) == IF cp < 128 THEN "ascii"
                 ELSE IF IsHangul(cp) THEN "hangul" ELSE "other"

\* the code points of the bytes under utf_8, from position i; <<-1>> when a
\* byte sequence is not well-formed UTF-8
RECURSIVE utf8_points(_, _)
utf8_points(b, i) ==
    IF i > Len(b) THEN << >>
    ELSE LET b1 == b[i]
             b2 == ByteAt(b, i + 1)
             b3 == ByteAt(b, i + 2)
             b4 == ByteAt(b, i + 3)
             n == IF b1 < 128 THEN 1
                  ELSE IF b1 >= 194 /\ b1 <= 223 /\ IsCont(b2) THEN 2
                  ELSE IF b1 = 224 /\ b2 >= 160 /\ b2 <= 191 /\ IsCont(b3) THEN 3
                  ELSE IF b1 = 237 /\ b2 >= 128 /\ b2 <= 159 /\ IsCont(b3) THEN 3
                  ELSE IF b1 >= 225 /\ b1 <= 239 /\ b1 # 237
                          /\ IsCont(b2) /\ IsCont(b3) THEN 3
                  ELSE IF b1 = 240 /\ b2 >= 144 /\ b2 <= 191
                          /\ IsCont(b3) /\ IsCont(b4) THEN 4
                  ELSE IF b1 >= 241 /\ b1 <= 243
                          /\ IsCont(b2) /\ IsCont(b3) /\ IsCont(b4) THEN 4
                  ELSE IF b1 = 244 /\ b2 >= 128 /\ b2 <= 143
                          /\ IsCont(b3) /\ IsCont(b4) THEN 4
                  ELSE 0
             cp == CASE n = 1 -> b1
                    [] n = 2 -> (b1 - 192) * 64 + (b2 - 128)
                    [] n = 3 -> (b1 - 224) * 4096 + (b2 - 128) * 64 + (b3 - 128)
                    [] n = 4 -> (b1 - 240) * 262144 + (b2 - 128) * 4096
                                  + (b3 - 128) * 64 + (b4 - 128)
                    [] OTHER -> -1
         IN  IF n = 0 THEN <<-1>>
             ELSE LET rest == utf8_points(b, i + n)
                  IN  IF rest = <<-1>> THEN <<-1>> ELSE <<cp>> \o rest

utf8_decode(b) ==
    IF utf8_points(b, 1) = <<-1>> THEN DecodeError
    ELSE [k \in 1..Len(utf8_points(b, 1)) |-> CharClass(utf8_points(b, 1)[k])]

\* utf_8_sig: utf_8 after a leading byte order mark 239 187 191 is dropped
BOM == <<239, 187, 191>>
has_bom(b) == Len(b) >= 3 /\ SubSeq(b, 1, 3) = BOM
utf8_sig_decode(b) ==
    IF has_bom(b) THEN utf8_decode(SubSeq(b, 4, Len(b))) ELSE utf8_decode(b)

\* latin_1: every byte is one character
latin1_decode(b) == [k \in 1..Len(b) |-> CharClass(b[k])]

\* trail bytes of the cp949 extension: 0x41-0x5A, 0x61-0x7A, 0x81-0xA0, and
\* of KS X 1001: 0xA1-0xFE
low_trail(t) == (t >= 65 /\ t <= 90) \/ (t >= 97 /\ t <= 122) \/ (t >= 129 /\ t <= 160)
high_trail(t) == t >= 161 /\ t <= 254

\* the assigned cells of the symbol rows 0xA1-0xAC of KS X 1001
symbol_cell(lead, t) ==
    CASE lead \in {161, 163, 164, 169} -> high_trail(t)
      [] lead = 162 -> t >= 161 /\ t <= 231
      [] lead = 165 -> \/ (t >= 161 /\ t <= 170) \/ (t >= 176 /\ t <= 185)
                       \/ (t >= 193 /\ t <= 216) \/ (t >= 225 /\ t <= 248)
      [] lead = 166 -> t >= 161 /\ t <= 228
      [] lead = 167 -> t >= 161 /\ t <= 239
      [] lead = 168 -> \/ (t >= 161 /\ t <= 164) \/ t = 166
                       \/ (t >= 168 /\ t <= 175) \/ (t >= 177 /\ t <= 254)
      [] lead = 170 -> t >= 161 /\ t <= 243
      [] lead = 171 -> t >= 161 /\ t <= 246
      [] lead = 172 -> (t >= 161 /\ t <= 193) \/ (t >= 209 /\ t <= 241)
      [] OTHER -> FALSE

\* the class of the two-byte character lead, t under euc_kr, "" when the
\* pair is not a character
euckr_pair(lead, t) ==
    IF lead >= 176 /\ lead <= 200 /\ high_trail(t) THEN "hangul"
    ELSE IF lead >= 202 /\ lead <= 253 /\ high_trail(t) THEN "other"
    ELSE IF lead = 164 /\ t = 212 THEN ""
    ELSE IF symbol_cell(lead, t) THEN "other"
    ELSE ""

\* the same under cp949: KS X 1001 and the 8822 syllables of the extension
cp949_pair(lead, t) ==
    IF lead >= 129 /\ lead <= 197 /\ low_trail(t) THEN "hangul"
    ELSE IF lead >= 129 /\ lead <= 160 /\ high_trail(t) THEN "hangul"
    ELSE IF lead = 198 /\ t >= 65 /\ t <= 82 THEN "hangul"
    ELSE IF lead >= 176 /\ lead <= 200 /\ high_trail(t) THEN "hangul"
    ELSE IF lead >= 202 /\ lead <= 253 /\ high_trail(t) THEN "other"
    ELSE IF symbol_cell(lead, t) THEN "other"
    ELSE ""

RECURSIVE cp949_from(_, _)
cp949_from(b, i) ==
    IF i > Len(b) THEN << >>
    ELSE IF b[i] < 128 THEN then("ascii", cp949_from(b, i + 1))
    ELSE IF i = Len(b) \/ cp949_pair(b[i], ByteAt(b, i + 1)) = "" THEN DecodeError
    ELSE then(cp949_pair(b[i], b[i + 1]), cp949_from(b, i + 2))
cp949_decode(b) == cp949_from(b, 1)

RECURSIVE euckr_from(_, _)
euckr_from(b, i) ==
    IF i > Len(b) THEN << >>
    ELSE IF b[i] < 128 THEN then("ascii", euckr_from(b, i + 1))
    ELSE IF i = Len(b) \/ euckr_pair(b[i], ByteAt(b, i + 1)) = "" THEN DecodeError
    ELSE then(euckr_pair(b[i], b[i + 1]), euckr_from(b, i + 2))
euckr_decode(b) == euckr_from(b, 1)

decode(encoding, b) ==
    CASE encoding = "utf-8-sig" -> utf8_sig_decode(b)
      [] encoding = "utf-8" -> utf8_decode(b)
      [] encoding = "cp949" -> cp949_decode(b)
      [] encoding = "euc-kr" -> euckr_decode(b)
      [] encoding = "latin1" -> latin1_decode(b)

\* line 32: pd.read_csv(path, encoding=encoding, nrows=0) raises on an empty
\* file (no columns to parse) and when the codec cannot decode the line
read_header_raises(encoding, b) ==
    Len(b) = 0 \/ decode(encoding, b) = DecodeError

\* lines 36-38
count_class(text, class) == Cardinality({ k \in 1..Len(text) : text[k] = class })
header_score(text) == count_class(text, "hangul") * 2 + count_class(text, "ascii")

\* the headers drawn: texts over the letter a, the syllables U+AC00 and
\* U+AC01 and the ideograph U+5E74, written as UTF-8 with or without a byte
\* order mark or as cp949, and the empty file
Letters == {"a", "ga", "gak", "nyeon"}
utf8_bytes(ch) == CASE ch = "a" -> <<97>>
                    [] ch = "ga" -> <<234, 176, 128>>
                    [] ch = "gak" -> <<234, 176, 129>>
                    [] ch = "nyeon" -> <<229, 185, 180>>
cp949_bytes(ch) == CASE ch = "a" -> <<97>>
                     [] ch = "ga" -> <<176, 161>>
                     [] ch = "gak" -> <<176, 162>>
                     [] ch = "nyeon" -> <<210, 180>>
RECURSIVE Texts(_)
Texts(n) == IF n = 0 THEN { << >> }
            ELSE Texts(n - 1) \cup { Append(w, ch) : w \in { w \in Texts(n - 1) : Len(w) = n - 1 },
                                                      ch \in Letters }
RECURSIVE encode(_, _, _)
encode(text, i, origin) ==
    IF i > Len(text) THEN << >>
    ELSE (IF origin = "cp949" THEN cp949_bytes(text[i]) ELSE utf8_bytes(text[i]))
           \o encode(text, i + 1, origin)
file_bytes(text, origin) ==
    (IF origin = "utf-8-sig" THEN BOM ELSE << >>) \o encode(text, 1, origin)
HeaderFiles ==
    { << >> } \cup { file_bytes(text, origin) :
                       text \in Texts(MaxHeaderLen) \ { << >> },
                       origin \in {"utf-8", "utf-8-sig", "cp949"} }

InitEnc ==
    /\ en_header \in HeaderFiles
    /\ en_tried = 0
    /\ en_best_encoding = ""
    /\ en_best_score = -1
    /\ en_pc = "loop"
    /\ ImIdle
    /\ SmIdle
    /\ MrIdle
    /\ NfIdle
    /\ ExIdle
    /\ RnIdle
    /\ BtIdle

\* lines 30-41: one iteration of "for encoding in ENCODINGS"
TryEncoding ==
    /\ en_pc = "loop"
    /\ en_tried < Len(ENCODINGS)
    /\ en_tried' = en_tried + 1
    /\ LET encoding == ENCODINGS[en_tried + 1]
       IN  IF read_header_raises(encoding, en_header)
           THEN UNCHANGED <<en_best_encoding, en_best_score>>
           ELSE \E score \in {header_score(decode(encoding, en_header))} :
                  IF score > en_best_score
                  THEN /\ en_best_score' = score
                       /\ en_best_encoding' = encoding
                  ELSE UNCHANGED <<en_best_encoding, en_best_score>>
    /\ UNCHANGED <<en_header, en_pc, enc_frame>>

\* lines 42-43
RaiseValueError ==
    /\ en_pc = "loop"
    /\ en_tried = Len(ENCODINGS)
    /\ en_best_encoding = ""
    /\ en_pc' = "raised"
    /\ UNCHANGED <<en_header, en_tried, en_best_encoding, en_best_score, enc_frame>>

\* line 44
ReturnBest ==
    /\ en_pc = "loop"
    /\ en_tried = Len(ENCODINGS)
    /\ en_best_encoding # ""
    /\ en_pc' = "returned"
    /\ UNCHANGED <<en_header, en_tried, en_best_encoding, en_best_score, enc_frame>>

NextEnc == TryEncoding \/ RaiseValueError \/ ReturnBest

SpecEnc == InitEnc /\ [][NextEnc]_vars

\* the candidates under which the header reads, and the score of each
Decodable == { k \in 1..Len(ENCODINGS) : ~read_header_raises(ENCODINGS[k], en_header) }
ScoreUnder(k) == header_score(decode(ENCODINGS[k], en_header))
\* a header that is well-formed UTF-8 and holds a Hangul syllable or a CJK
\* unified ideograph (U+4E00..U+9FFF) when read as UTF-8
HasCJK(b) ==
    /\ utf8_points(b, 1) # <<-1>>
    /\ \E k \in 1..Len(utf8_points(b, 1)) :
          \/ IsHangul(utf8_points(b, 1)[k])
          \/ (utf8_points(b, 1)[k] >= 19968 /\ utf8_points(b, 1)[k] <= 40959)
LegacyDecodes == \E k \in {3, 4, 5} : k \in Decodable

\* C9: best-score detection returns a candidate that decodes the header and
\* whose score (2 x Hangul characters + ASCII characters) is the highest
\* among the candidates that decode, and it fails only when no candidate
\* decodes; in particular, for a header that decodes under a legacy
\* candidate and under UTF-8 and whose CJK characters are rendered
\* correctly only under UTF-8, the encoding returned is UTF-8.
C9_BestScoreSelectsUtf8 ==
    /\ en_pc = "raised" => Decodable = {}
    /\ en_pc = "returned" =>
          /\ \E k \in Decodable :
                /\ ENCODINGS[k] = en_best_encoding
                /\ \A j \in Decodable : ScoreUnder(j) <= ScoreUnder(k)
          /\ (HasCJK(en_header) /\ LegacyDecodes)
                => en_best_encoding \in {"utf-8-sig", "utf-8"}

\* the months of the reference interval [im_start, im_end], by month index
ReferenceMonths ==
    IF im_start <= im_end THEN MonthsBetween(im_start, im_end) ELSE {}

\* C11: every FileSummary returned by summarize_file, of a file that was
\* read with whatever observations and of a file that could not be read,
\* has present_count + missing_count equal to the number of months of the
\* reference interval; present and missing are disjoint and together are
\* exactly the reference months, and observations outside the interval
\* change neither count.
C11_CountsPartitionReference ==
    im_pc = "summarized" =>
      /\ file_summary.present_count + file_summary.missing_count
            = Cardinality(ReferenceMonths)
      /\ ~file_summary.read_error =>
            /\ Range(present) \cap Range(missing) = {}
            /\ Range(present) \cup Range(missing) = ReferenceMonths
            /\ file_summary.present_count = Cardinality(Range(present))
            /\ file_summary.missing_count = Cardinality(Range(missing))
            /\ file_summary.present_count
                  = Cardinality(year_months \cap ReferenceMonths)
      /\ file_summary.read_error =>
            /\ file_summary.present_count = 0
            /\ file_summary.missing_count = Cardinality(ReferenceMonths)

C11_Witness ==
    /\ im_pc = "summarized"
    /\ ~file_summary.read_error
    /\ im_start = 202012 /\ im_end = 202102
    /\ year_months = {202010, 202101, 202103}
    /\ file_summary.present_count = 1
    /\ file_summary.missing_count = 2

(***************************************************************************)
(* rename_all_data_folders.py: main, lines 11-48.  The target directory is *)
(* the set of the names of its folders; names are compared as Python       *)
(* compares strings, code point by code point.                             *)
(***************************************************************************)
\* ord() of the characters of the folder names drawn
Ord(c) == IF IsDigit(c) THEN 48 + CharVal(c)
          ELSE CASE c = "-" -> 45 [] c = "_" -> 95 [] c = "a" -> 97

\* a < b for two strings
str_less(a, b) ==
    \E n \in {IF Len(a) < Len(b) THEN Len(a) ELSE Len(b)} :
      \E diff \in {{ i \in 1..n : a[i] # b[i] }} :
        IF diff = {} THEN Len(a) < Len(b)
        ELSE Ord(a[SetMin(diff)]) < Ord(b[SetMin(diff)])

\* sorted() of a set of names
RECURSIVE sorted_names(_)
sorted_names(S) ==
    IF S = {} THEN << >>
    ELSE LET m == CHOOSE x \in S : \A y \in S \ {x} : str_less(x, y)
         IN  <<m>> \o sorted_names(S \ {m})

\* line 8 and line 24: PERIOD_PATTERN.search(name), (\d{6}-\d{6}); the
\* positions where it matches, and group(1) of the leftmost match
period_at(name, i) ==
    /\ i + 12 <= Len(name)
    /\ \A k \in 0..5 : IsDigit(name[i + k])
    /\ name[i + 6] = "-"
    /\ \A k \in 7..12 : IsDigit(name[i + k])
period_positions(name) == { i \in 1..Len(name) : period_at(name, i) }
period_of(name) ==
    IF period_positions(name) = {} THEN << >>
    ELSE SubSeq(name, SetMin(period_positions(name)),
                SetMin(period_positions(name)) + 12)

\* lines 22-27: the keys of period_groups in insertion order
RECURSIVE group_keys(_, _, _)
group_keys(folders, i, keys) ==
    IF i > Len(folders) THEN keys
    ELSE IF period_of(folders[i]) \in Range(keys)
    THEN group_keys(folders, i + 1, keys)
    ELSE group_keys(folders, i + 1, Append(keys, period_of(folders[i])))

\* line 34: new_name
new_name(period, index) == period \o <<"_">> \o int_str(index)

\* lines 33-41: the loop over one group's paths from position index on; the
\* directory and the operations so far go in, the outcome comes out
RECURSIVE group_loop(_, _, _, _, _)
group_loop(dir, period, paths, index, operations) ==
    IF index > Len(paths)
    THEN [dir |-> dir, operations |-> operations, aborted |-> FALSE]
    ELSE IF paths[index] = new_name(period, index)
    THEN group_loop(dir, period, paths, index + 1, operations)
    ELSE IF new_name(period, index) \in dir
    THEN [dir |-> dir, operations |-> operations, aborted |-> TRUE]
    ELSE group_loop((dir \ {paths[index]}) \cup {new_name(period, index)},
                    period, paths, index + 1,
                    Append(operations, <<paths[index], new_name(period, index)>>))

\* lines 32-41: the loop over period_groups.items()
RECURSIVE groups_loop(_, _, _, _)
groups_loop(state, folders, keys, k) ==
    IF k > Len(keys) \/ state.aborted THEN state
    ELSE groups_loop(
           group_loop(state.dir, keys[k],
                      sorted_names({ f \in Range(folders) : period_of(f) = keys[k] }),
                      1, state.operations),
           folders, keys, k + 1)

\* lines 11-48 on the folders found
rename_folders(folders) ==
    IF Len(folders) = 0
    THEN [dir |-> Range(folders), operations |-> << >>, status |-> "no_folders"]
    ELSE IF \E i \in 1..Len(folders) : period_of(folders[i]) = << >>
    THEN [dir |-> Range(folders), operations |-> << >>, status |-> "no_period"]
    ELSE LET out == groups_loop([dir |-> Range(folders), operations |-> << >>,
                                 aborted |-> FALSE],
                                folders, group_keys(folders, 1, << >>), 1)
         IN  [dir |-> out.dir, operations |-> out.operations,
              status |-> IF out.aborted THEN "target_exists"
                         ELSE IF Len(out.operations) > 0 THEN "renamed"
                         ELSE "conform"]

\* the folder names drawn: two periods; for the first, numbered names
\* _1 .. _n with at most one of them absent, the bare period and the period
\* after a letter; for the second, the bare period and the name numbered
\* _2; and a name without a period
PeriodA == <<"2", "0", "2", "0", "0", "1", "-", "2", "0", "2", "0", "0", "3">>
PeriodB == <<"2", "0", "2", "0", "0", "4", "-", "2", "0", "2", "0", "0", "6">>
NumberedSets ==
    { { new_name(PeriodA, k) : k \in (1..n) \ {gap} } :
        n \in 0..MaxIndex, gap \in 0..MaxIndex }
OtherNames == { PeriodA, <<"a">> \o PeriodA, PeriodB, new_name(PeriodB, 2), <<"a">> }

InitRename ==
    /\ rn_root \in BOOLEAN
    /\ \E numbered \in NumberedSets, others \in SUBSET OtherNames :
          rn_dir = numbered \cup others
    /\ rn_runs = << >>
    /\ ImIdle
    /\ SmIdle
    /\ MrIdle
    /\ NfIdle
    /\ ExIdle
    /\ BtIdle
    /\ EnIdle

\* one run of main()
RenameFolders ==
    /\ Len(rn_runs) < MaxRuns
    /\ IF ~rn_root
       THEN /\ rn_runs' = Append(rn_runs, [status |-> "no_root", operations |-> << >>])
            /\ UNCHANGED rn_dir
       ELSE \E out \in {rename_folders(sorted_names(rn_dir))} :
              /\ rn_dir' = out.dir
              /\ rn_runs' = Append(rn_runs, [status |-> out.status,
                                             operations |-> out.operations])
    /\ UNCHANGED <<rn_root, rename_frame>>

NextRename == RenameFolders

SpecRename == InitRename /\ [][NextRename]_vars

\* a run that did not abort
Completed(run) == run.status \in {"renamed", "conform", "no_folders"}
PeriodsIn(dir) == { period_of(f) : f \in dir }
GroupOf(dir, period) == { f \in dir : period_of(f) = period }

\* C12: folder renaming is idempotent: after a run that completes without
\* aborting, whatever the number of folders of a period group, the folders
\* of each group are named <period>_1 .. <period>_n, and a second run
\* started from that state renames nothing and does not abort.
C12_RenameIdempotent ==
    (Len(rn_runs) >= 1 /\ Completed(rn_runs[1])) =>
      /\ Len(rn_runs) = 1 =>
            \A period \in PeriodsIn(rn_dir) :
                GroupOf(rn_dir, period)
                  = { new_name(period, k) :
                        k \in 1..Cardinality(GroupOf(rn_dir, period)) }
      /\ Len(rn_runs) = 2 =>
            /\ Completed(rn_runs[2])
            /\ rn_runs[2].operations = << >>

=============================================================================
